---- MODULE Spec2Model ----
(***************************************************************************)
(* Model of the Q-Former training step of korblip2                         *)
(* (src/korblip2/model/blip2.py): concat_all_gather and                    *)
(* Blip2ForQformerTraining.forward, run by world_size processes.           *)
(*                                                                         *)
(* A tensor is a function over 0..n-1 (dim 0), as the code indexes it.     *)
(* A row of a tensor is a record [val, grad]: val is the row's content and *)
(* grad the set of processes autograd links the row back to.               *)
(* The vision model, the Q-Former and the projections are external; they   *)
(* are fixed functions of the sample here, with normalised outputs.        *)
(*                                                                         *)
(* The processes share nothing but the collectives.  Each process makes    *)
(* one call of forward; what calls forward, and whether it calls it again, *)
(* is the training script's business.                                      *)
(***************************************************************************)
EXTENDS Integers, Sequences, FiniteSets, TLC

\* Bounds of the model: processes in the pool, rows of a local batch, rows of
\* the global batch.
MaxWorld == 2
MaxBatch == 2
MaxGlobal == 4

VARIABLES
    world_size,        \* processes of the pool (1 when no runtime is initialised)
    dist_initialized,  \* dist.is_available() and dist.is_initialized()
    pc,                \* pc[p]: where process p is in forward
    frame,             \* frame[p]: the locals of forward on process p
    tensors_gather     \* tensors_gather[n][r]: what rank r gave to the n-th collective

vars == <<world_size, dist_initialized, pc, frame, tensors_gather>>

Procs == 0..(world_size - 1)

----------------------------------------------------------------------------
\* Tensors

Size(t) == Cardinality(DOMAIN t)

Row(v, g) == [val |-> v, grad |-> g]

cat2(a, b) ==
    [k \in 0..(Size(a) + Size(b) - 1) |-> IF k < Size(a) THEN a[k] ELSE b[k - Size(a)]]

\* the row of the concatenation at which the i-th tensor of the list starts
RECURSIVE offset(_, _)
offset(ts, i) == IF i = 1 THEN 0 ELSE offset(ts, i - 1) + Size(ts[i - 1])

\* torch.cat(list, dim=0): the tensors of the list, in list order
torch_cat(ts) ==
    [k \in 0..(offset(ts, Len(ts) + 1) - 1) |->
        LET i == CHOOSE j \in 1..Len(ts) : offset(ts, j) <= k /\ k < offset(ts, j + 1)
        IN ts[i][k - offset(ts, i)]]

\* list.append followed by torch.stack(list, dim=0)
append(t, row) == cat2(t, [k \in 0..0 |-> row])

detach(t) == [k \in DOMAIN t |-> Row(t[k].val, {})]

Max(S) == CHOOSE x \in S : \A y \in S : y <= x

----------------------------------------------------------------------------
\* External encoders: fixed functions of the sample

\* vision_model(pixel_values)[0]: the embedding of one image
vision_model(px) == <<"embed", px>>

\* normalize(vision_projection(qformer(query_tokens, image_embeds))): one unit
\* vector per query token
image_feats_of(px) == IF px = 1 THEN <<1, -1>> ELSE <<-1, -1>>

\* normalize(text_projection(qformer(embeddings(input_ids))[:, 0, :]))
text_feats_of(tok) == IF tok = 1 THEN 1 ELSE -1

\* the attention mask of a tokenised sentence
mask_of(tok) == IF tok = 1 THEN <<1, 1>> ELSE <<1, 0>>

----------------------------------------------------------------------------
\* concat_all_gather

is_dist_avail_and_initialized == dist_initialized

\* @torch.no_grad() decorates the whole of concat_all_gather
grad_enabled_in_gather == FALSE

\* torch.distributed.nn.functional.all_gather: differentiable when grad mode is on
all_gather_with_backprop(ts, grad_enabled) ==
    [r \in DOMAIN ts |-> IF grad_enabled THEN ts[r] ELSE detach(ts[r])]


\* mutant: the gathered list filled in descending rank order
all_gather_descending(ts) == [r \in DOMAIN ts |-> detach(ts[Len(ts) + 1 - r])]

\* torch.distributed.all_gather into fresh buffers: slot r holds rank r's tensor
all_gather(ts) == [r \in DOMAIN ts |-> detach(ts[r])]

\* the value concat_all_gather returns in an initialised process group, ts[r+1]
\* being the tensor rank r passed
concat_all_gather(ts, with_grad) ==
    IF with_grad
    THEN torch_cat(all_gather_with_backprop(ts, grad_enabled_in_gather))
    ELSE torch_cat(all_gather(ts))

\* the five calls of forward, in program order
GatherSites == <<
    [call |-> "gather_image_feats", wait |-> "wait_image_feats",
     arg |-> "image_feats", with_grad |-> FALSE, dest |-> "image_feats_all",
     next |-> "gather_text_feats"],
    [call |-> "gather_text_feats", wait |-> "wait_text_feats",
     arg |-> "text_feats", with_grad |-> FALSE, dest |-> "text_feats_all",
     next |-> "similarity"],
    [call |-> "gather_image_embeds", wait |-> "wait_image_embeds",
     arg |-> "image_embeds", with_grad |-> TRUE, dest |-> "image_embeds_all",
     next |-> "neg_image"],
    [call |-> "gather_input_ids", wait |-> "wait_input_ids",
     arg |-> "input_ids", with_grad |-> FALSE, dest |-> "text_input_ids_all",
     next |-> "gather_attention_mask"],
    [call |-> "gather_attention_mask", wait |-> "wait_attention_mask",
     arg |-> "attention_mask", with_grad |-> FALSE, dest |-> "text_attention_mask_all",
     next |-> "neg_text"] >>

NoSlot == [site |-> "none", tensor |-> << >>]

\* attention_mask left at its default: no tensor
None == << >>

----------------------------------------------------------------------------
\* The arithmetic of forward

\* torch.matmul(image_feats, text_feats_all.t()).max(dim=1)
sim_i2t_of(image_feats, text_feats_all) ==
    [i \in DOMAIN image_feats |-> [j \in DOMAIN text_feats_all |->
        Max({image_feats[i].val[q] * text_feats_all[j].val :
                q \in DOMAIN image_feats[i].val})]]

\* torch.matmul(image_feats_all, text_feats.t()).max(dim=1).t()
sim_t2i_of(image_feats_all, text_feats) ==
    [t \in DOMAIN text_feats |-> [j \in DOMAIN image_feats_all |->
        Max({image_feats_all[j].val[q] * text_feats[t].val :
                q \in DOMAIN image_feats_all[j].val})]]

\* torch.linspace(start, end, steps, dtype=int)
linspace(start, end, steps) ==
    [i \in 0..(steps - 1) |->
        IF steps = 1 THEN start ELSE start + ((end - start) * i) \div (steps - 1)]


\* mutant: the targets without the rank offset
targets_local(rank, bs) == linspace(0, bs - 1, bs)

targets_of(rank, bs) == linspace(rank * bs, rank * bs + bs - 1, bs)

\* F.cross_entropy(input, target): one class index per row of input
cross_entropy(input, target) ==
    IF /\ DOMAIN input = DOMAIN target
       /\ \A i \in DOMAIN input : target[i] \in DOMAIN input[i]
    THEN "scalar" ELSE "error"

Sentinel == -10000


\* mutant: the whole block sim[:, lo:hi] filled
fill_block(sim, lo, hi, v) ==
    [i \in DOMAIN sim |-> [j \in DOMAIN sim[i] |->
        IF j >= lo /\ j < hi THEN v ELSE sim[i][j]]]

\* sim[:, lo:hi].fill_diagonal_(v)
fill_diagonal_(sim, lo, hi, v) ==
    [i \in DOMAIN sim |-> [j \in DOMAIN sim[i] |->
        IF j >= lo /\ j < hi /\ j - lo = i THEN v ELSE sim[i][j]]]

suppress(sim, rank, bs) == fill_diagonal_(sim, rank * bs, rank * bs + bs, Sentinel)

\* exp(x) is exactly 0 in float32 for x below -ExpUnderflow
ExpUnderflow == 104

\* F.softmax(sim, dim=1), up to which entries are exactly 0: 1 marks an entry
\* with probability mass, 0 an entry whose exp(x - max) underflows
softmax(sim) ==
    [i \in DOMAIN sim |-> [j \in DOMAIN sim[i] |->
        IF sim[i][j] - Max({sim[i][k] : k \in DOMAIN sim[i]}) > -ExpUnderflow
        THEN 1 ELSE 0]]

\* torch.multinomial(weights, 1).item(): the indices a draw can return
multinomial(weights) == {j \in DOMAIN weights : weights[j] > 0}

ones(n) == [k \in 0..(n - 1) |-> 1]
zeros(n) == [k \in 0..(n - 1) |-> 0]

\* text_ids_all / text_atts_all: pos, pos, neg
triplet_text(pos, neg) == torch_cat(<<pos, pos, neg>>)


\* mutant: the images in the order of the texts
triplet_image_as_text(pos, neg) == torch_cat(<<pos, pos, neg>>)

\* image_embeds_all: pos, neg, pos
triplet_image(pos, neg) == torch_cat(<<pos, neg, pos>>)


\* mutant: one block of zeros
itm_labels_short(bs) == torch_cat(<<ones(bs), zeros(bs)>>)

itm_labels_of(bs) == torch_cat(<<ones(bs), zeros(2 * bs)>>)

----------------------------------------------------------------------------
\* Initial state

\* the local batch of n samples rank r is given: the sample kinds alternate
\* along the global batch, from phase s
Batch(n, r, s) == [i \in 0..(n - 1) |-> 1 + ((r + i + s) % 2)]

\* the attention masks the tokeniser gives with the token ids
masks_of(tokens) == [i \in DOMAIN tokens |-> Row(mask_of(tokens[i]), {})]

\* the locals of forward at its entry: the arguments are bound, nothing else
NewFrame(pixels, tokens, attention_mask) ==
    [pixel_values |-> pixels,
     input_ids |-> [i \in DOMAIN tokens |-> Row(tokens[i], {})],
     attention_mask |-> attention_mask,
     image_embeds |-> << >>, image_feats |-> << >>, text_feats |-> << >>,
     image_feats_all |-> << >>, text_feats_all |-> << >>,
     sim_i2t |-> << >>, sim_t2i |-> << >>,
     rank |-> -1, bs |-> 0, targets |-> << >>, loss_itc |-> "unset",
     weights_t2i |-> << >>, weights_i2t |-> << >>,
     image_embeds_all |-> << >>, b |-> -1, neg_idx |-> -1,
     image_embeds_neg |-> << >>,
     text_input_ids_all |-> << >>, text_attention_mask_all |-> << >>,
     text_ids_neg |-> << >>, text_atts_neg |-> << >>,
     text_ids_all |-> << >>, text_atts_all |-> << >>,
     itm_labels |-> << >>, loss_itm |-> "unset",
     collectives |-> << >>, error |-> "none", retval |-> "unset"]

\* every process calls forward with a local batch of the same size n; each
\* call passes the attention masks or leaves attention_mask at its default
Init ==
    /\ dist_initialized \in BOOLEAN
    /\ world_size \in 1..MaxWorld
    /\ dist_initialized \/ world_size = 1
    /\ pc = [p \in Procs |-> "encode"]
    /\ \E n \in 1..MaxBatch :
         /\ world_size * n <= MaxGlobal
         /\ \E s \in {0, 1} : \E given \in [Procs -> BOOLEAN] :
               frame = [p \in Procs |->
                  NewFrame(Batch(n, p, s), Batch(n, p, s),
                           IF given[p] THEN masks_of(Batch(n, p, s)) ELSE None)]
    /\ tensors_gather = [n \in DOMAIN GatherSites |-> [p \in Procs |-> NoSlot]]

----------------------------------------------------------------------------
\* forward, one action per stage; p is the process

Set(p, f) == frame' = [frame EXCEPT ![p] = f]

\* forward is left: its locals die, the caller keeps its inputs and sees what
\* forward raised or returned; collectives, the record of the collectives the
\* process entered in this step, is kept
Leave(F, error, retval) ==
    [NewFrame(F.pixel_values, [i \in DOMAIN F.input_ids |-> F.input_ids[i].val],
              F.attention_mask)
        EXCEPT !.error = error, !.retval = retval, !.collectives = F.collectives]

\* lines 162-199: the encoders
Encode(p) ==
    /\ pc[p] = "encode"
    /\ LET F == frame[p] IN
       Set(p, [F EXCEPT
          !.image_embeds =
              [i \in DOMAIN F.pixel_values |-> Row(vision_model(F.pixel_values[i]), {p})],
          !.image_feats =
              [i \in DOMAIN F.pixel_values |-> Row(image_feats_of(F.pixel_values[i]), {p})],
          !.text_feats =
              [i \in DOMAIN F.input_ids |-> Row(text_feats_of(F.input_ids[i].val), {p})]])
    /\ pc' = [pc EXCEPT ![p] = "gather_image_feats"]
    /\ UNCHANGED <<world_size, dist_initialized, tensors_gather>>


\* mutant: only rank 0 gathers the attention masks, the other ranks repeat theirs
ConcatAllGatherCallRank0(p) ==
    \E k \in DOMAIN GatherSites :
       LET s == GatherSites[k]
           F == frame[p]
           n == Len(F.collectives) + 1
       IN /\ pc[p] = s.call
          /\ IF ~is_dist_avail_and_initialized
             THEN /\ Set(p, [F EXCEPT ![s.dest] = F[s.arg]])
                  /\ pc' = [pc EXCEPT ![p] = s.next]
                  /\ UNCHANGED tensors_gather
             ELSE IF F[s.arg] = None
             THEN /\ Set(p, Leave(F, "ones_like", "unset"))
                  /\ pc' = [pc EXCEPT ![p] = "raised"]
                  /\ UNCHANGED tensors_gather
             ELSE IF s.arg = "attention_mask" /\ p # 0
             THEN /\ Set(p, [F EXCEPT ![s.dest] =
                        torch_cat([r \in 1..world_size |-> F[s.arg]])])
                  /\ pc' = [pc EXCEPT ![p] = s.next]
                  /\ UNCHANGED tensors_gather
             ELSE /\ Set(p, [F EXCEPT !.collectives = Append(@, s.arg)])
                  /\ tensors_gather' = [tensors_gather EXCEPT
                        ![n][p] = [site |-> s.arg, tensor |-> F[s.arg]]]
                  /\ pc' = [pc EXCEPT ![p] = s.wait]
          /\ UNCHANGED <<world_size, dist_initialized>>

\* concat_all_gather, lines 34-49: the identity without a process group, else
\* the tensor is handed to the process's next collective, which blocks;
\* torch.ones_like raises TypeError when the argument is None
ConcatAllGatherCall(p) ==
    \E k \in DOMAIN GatherSites :
       LET s == GatherSites[k]
           F == frame[p]
           n == Len(F.collectives) + 1
       IN /\ pc[p] = s.call
          /\ IF ~is_dist_avail_and_initialized
             THEN /\ Set(p, [F EXCEPT ![s.dest] = F[s.arg]])
                  /\ pc' = [pc EXCEPT ![p] = s.next]
                  /\ UNCHANGED tensors_gather
             ELSE IF F[s.arg] = None
             THEN /\ Set(p, Leave(F, "ones_like", "unset"))
                  /\ pc' = [pc EXCEPT ![p] = "raised"]
                  /\ UNCHANGED tensors_gather
             ELSE /\ Set(p, [F EXCEPT !.collectives = Append(@, s.arg)])
                  /\ tensors_gather' = [tensors_gather EXCEPT
                        ![n][p] = [site |-> s.arg, tensor |-> F[s.arg]]]
                  /\ pc' = [pc EXCEPT ![p] = s.wait]
          /\ UNCHANGED <<world_size, dist_initialized>>

\* concat_all_gather, lines 44-52: the collective completes once every rank has
\* entered it; the result is the concatenation in rank order
ConcatAllGatherReturn(p) ==
    \E k \in DOMAIN GatherSites :
       LET s == GatherSites[k]
           F == frame[p]
           n == Len(F.collectives)
       IN /\ pc[p] = s.wait
          /\ \A q \in Procs : tensors_gather[n][q].site # "none"
          /\ Set(p, [F EXCEPT ![s.dest] =
                concat_all_gather([r \in 1..world_size |-> tensors_gather[n][r - 1].tensor],
                                  s.with_grad)])
          /\ pc' = [pc EXCEPT ![p] = s.next]
          /\ UNCHANGED <<world_size, dist_initialized, tensors_gather>>

\* lines 204-209
Similarity(p) ==
    /\ pc[p] = "similarity"
    /\ LET F == frame[p] IN
       Set(p, [F EXCEPT
          !.sim_i2t = sim_i2t_of(F.image_feats, F.text_feats_all),
          !.sim_t2i = sim_t2i_of(F.image_feats_all, F.text_feats)])
    /\ pc' = [pc EXCEPT ![p] = "targets"]
    /\ UNCHANGED <<world_size, dist_initialized, tensors_gather>>

\* lines 211-215: dist.get_rank() raises when the default process group is not
\* initialised
Targets(p) ==
    /\ pc[p] = "targets"
    /\ LET F == frame[p] IN
       IF ~dist_initialized
       THEN /\ Set(p, Leave(F, "get_rank", "unset"))
            /\ pc' = [pc EXCEPT ![p] = "raised"]
       ELSE /\ Set(p, [F EXCEPT
                  !.rank = p,
                  !.bs = Size(F.image_embeds),
                  !.targets = targets_of(p, Size(F.image_embeds))])
            /\ pc' = [pc EXCEPT ![p] = "contrastive"]
    /\ UNCHANGED <<world_size, dist_initialized, tensors_gather>>

\* lines 217-227: the contrastive loss, then the suppression and the softmax
Contrastive(p) ==
    /\ pc[p] = "contrastive"
    /\ LET F == frame[p]
           t2i == suppress(F.sim_t2i, F.rank, F.bs)
           i2t == suppress(F.sim_i2t, F.rank, F.bs)
       IN Set(p, [F EXCEPT
             !.loss_itc = IF cross_entropy(F.sim_i2t, F.targets) = "scalar"
                          THEN cross_entropy(F.sim_t2i, F.targets) ELSE "error",
             !.sim_t2i = t2i,
             !.sim_i2t = i2t,
             !.weights_t2i = softmax(t2i),
             !.weights_i2t = softmax(i2t)])
    /\ pc' = [pc EXCEPT ![p] = "gather_image_embeds"]
    /\ UNCHANGED <<world_size, dist_initialized, tensors_gather>>

\* the value range(bs) binds b to next; b is bs-1 after the previous loop
next_b(F) == (F.b + 1) % F.bs

\* lines 231-234, one iteration of the loop over the anchors
SampleNegImage(p) ==
    /\ pc[p] = "neg_image"
    /\ LET F == frame[p]
           b == next_b(F)
       IN /\ \E neg_idx \in multinomial(F.weights_t2i[b]) :
                Set(p, [F EXCEPT
                   !.b = b,
                   !.neg_idx = neg_idx,
                   !.image_embeds_neg = append(@, F.image_embeds_all[neg_idx])])
          /\ pc' = [pc EXCEPT ![p] =
                IF b + 1 < F.bs THEN "neg_image" ELSE "gather_input_ids"]
    /\ UNCHANGED <<world_size, dist_initialized, tensors_gather>>

\* lines 240-243, one iteration of the loop over the anchors
SampleNegText(p) ==
    /\ pc[p] = "neg_text"
    /\ LET F == frame[p]
           b == next_b(F)
       IN /\ \E neg_idx \in multinomial(F.weights_i2t[b]) :
                Set(p, [F EXCEPT
                   !.b = b,
                   !.neg_idx = neg_idx,
                   !.text_ids_neg = append(@, F.text_input_ids_all[neg_idx]),
                   !.text_atts_neg = append(@, F.text_attention_mask_all[neg_idx])])
          /\ pc' = [pc EXCEPT ![p] = IF b + 1 < F.bs THEN "neg_text" ELSE "matching"]
    /\ UNCHANGED <<world_size, dist_initialized, tensors_gather>>

\* lines 248-292: the triplet batch, the labels and the matching loss
Matching(p) ==
    /\ pc[p] = "matching"
    /\ LET F == frame[p]
           ids == triplet_text(F.input_ids, F.text_ids_neg)
           atts == triplet_text(F.attention_mask, F.text_atts_neg)
           imgs == triplet_image(F.image_embeds, F.image_embeds_neg)
           labels == itm_labels_of(F.bs)
       IN Set(p, [F EXCEPT
             !.text_ids_all = ids,
             !.text_atts_all = atts,
             !.image_embeds_all = imgs,
             !.itm_labels = labels,
             !.loss_itm = IF /\ Size(ids) = Size(imgs) /\ Size(atts) = Size(ids)
                             /\ Size(labels) = Size(ids)
                          THEN "scalar" ELSE "error"])
    /\ pc' = [pc EXCEPT ![p] = "return"]
    /\ UNCHANGED <<world_size, dist_initialized, tensors_gather>>

\* lines 295-306: the tuple names logits_per_image, which nothing defines; the
\* structured return is commented out, so the function ends and returns None
Return(p) ==
    /\ pc[p] = "return"
    /\ \E return_dict \in BOOLEAN :
         IF ~return_dict
         THEN /\ Set(p, Leave(frame[p], "logits_per_image", "unset"))
              /\ pc' = [pc EXCEPT ![p] = "raised"]
         ELSE /\ Set(p, Leave(frame[p], "none", "None"))
              /\ pc' = [pc EXCEPT ![p] = "returned"]
    /\ UNCHANGED <<world_size, dist_initialized, tensors_gather>>

Ended(p) == pc[p] \in {"returned", "raised"}

Forward(p) ==
    \/ Encode(p)
    \/ ConcatAllGatherCall(p)
    \/ ConcatAllGatherReturn(p)
    \/ Similarity(p)
    \/ Targets(p)
    \/ Contrastive(p)
    \/ SampleNegImage(p)
    \/ SampleNegText(p)
    \/ Matching(p)
    \/ Return(p)

Next ==
    \/ \E p \in Procs : Encode(p)
    \/ \E p \in Procs : ConcatAllGatherCall(p)
    \/ \E p \in Procs : ConcatAllGatherReturn(p)
    \/ \E p \in Procs : Similarity(p)
    \/ \E p \in Procs : Targets(p)
    \/ \E p \in Procs : Contrastive(p)
    \/ \E p \in Procs : SampleNegImage(p)
    \/ \E p \in Procs : SampleNegText(p)
    \/ \E p \in Procs : Matching(p)
    \/ \E p \in Procs : Return(p)

Spec == Init /\ [][Next]_vars

\* the processes run: while some process can take a step of forward, a step
\* of forward is taken
FairSpec ==
    /\ Init
    /\ [][Next]_vars
    /\ WF_vars(\E p \in Procs : Forward(p))

----------------------------------------------------------------------------
\* Properties

\* the local batch size of process p
N(p) == Size(frame[p].pixel_values)

Has(p, field) == Size(frame[p][field]) > 0

\* p holds the triplet batch: Matching has run and forward is not left yet
Assembled(p) == pc[p] = "return"

\* p holds the gathered image embeddings (Matching rebinds the name
\* image_embeds_all to the images of the triplet batch)
HoldsGatheredEmbeds(p) == Has(p, "image_embeds_all") /\ pc[p] # "return"

vals(t) == [k \in DOMAIN t |-> t[k].val]

\* C1, as stated: the triplet batch is three blocks of n rows: (image i, text
\* i), then (image i, negative text of anchor i), then (negative image of
\* anchor i, text i); ids and masks follow the same layout.
C1_TripletOrderAsStated ==
    \A p \in Procs : Assembled(p) =>
       LET F == frame[p]
           n == N(p)
       IN \A i \in 0..(n - 1) :
            /\ F.image_embeds_all[i].val = F.image_embeds[i].val
            /\ F.text_ids_all[i] = F.input_ids[i]
            /\ F.text_atts_all[i] = F.attention_mask[i]
            /\ F.image_embeds_all[n + i].val = F.image_embeds[i].val
            /\ F.text_ids_all[n + i] = F.text_ids_neg[i]
            /\ F.text_atts_all[n + i] = F.text_atts_neg[i]
            /\ F.image_embeds_all[2 * n + i].val = F.image_embeds_neg[i].val
            /\ F.text_ids_all[2 * n + i] = F.input_ids[i]
            /\ F.text_atts_all[2 * n + i] = F.attention_mask[i]

\* C1, amended: the triplet batch is three blocks of n rows: (image i, text
\* i), then (negative image of anchor i, text i), then (image i, negative text
\* of anchor i); ids and masks follow the same layout, and the negative of
\* anchor b is the row of the gathered batch at the index drawn for b.
C1_TripletOrder ==
    \A p \in Procs :
       LET F == frame[p]
           n == N(p)
       IN /\ Assembled(p) =>
               /\ DOMAIN F.image_embeds_all = 0..(3 * n - 1)
               /\ DOMAIN F.text_ids_all = 0..(3 * n - 1)
               /\ DOMAIN F.text_atts_all = 0..(3 * n - 1)
               /\ \A i \in 0..(n - 1) :
                    /\ F.image_embeds_all[i] = F.image_embeds[i]
                    /\ F.text_ids_all[i] = F.input_ids[i]
                    /\ F.text_atts_all[i] = F.attention_mask[i]
                    /\ F.image_embeds_all[n + i] = F.image_embeds_neg[i]
                    /\ F.text_ids_all[n + i] = F.input_ids[i]
                    /\ F.text_atts_all[n + i] = F.attention_mask[i]
                    /\ F.image_embeds_all[2 * n + i] = F.image_embeds[i]
                    /\ F.text_ids_all[2 * n + i] = F.text_ids_neg[i]
                    /\ F.text_atts_all[2 * n + i] = F.text_atts_neg[i]
          /\ (Has(p, "image_embeds_neg") /\ ~Has(p, "text_ids_neg")) =>
               /\ DOMAIN F.image_embeds_neg = 0..F.b
               /\ F.image_embeds_neg[F.b] = F.image_embeds_all[F.neg_idx]
          /\ Has(p, "text_ids_neg") =>
               /\ DOMAIN F.text_ids_neg = 0..F.b
               /\ DOMAIN F.text_atts_neg = 0..F.b
               /\ F.text_ids_neg[F.b] = F.text_input_ids_all[F.neg_idx]
               /\ F.text_atts_neg[F.b] = F.text_attention_mask_all[F.neg_idx]

\* a triplet batch of two anchors whose negatives differ from their positives
C1_Witness ==
    \E p \in Procs :
       /\ Assembled(p)
       /\ N(p) = 2
       /\ \A i \in 0..1 :
            /\ frame[p].image_embeds_neg[i].val # frame[p].image_embeds[i].val
            /\ frame[p].text_ids_neg[i] # frame[p].input_ids[i]
            /\ frame[p].text_atts_neg[i] # frame[p].attention_mask[i]

\* p has drawn a negative for anchor b
Drew(p) == frame[p].neg_idx >= 0

\* C2: no draw of a negative image or a negative text returns the global
\* index rank*bs + b of the anchor's own true positive.
C2_NeverDrawsPositive ==
    \A p \in Procs : Drew(p) =>
       frame[p].neg_idx # frame[p].rank * frame[p].bs + frame[p].b

\* p is past the suppression step
Suppressed(p) == Has(p, "weights_t2i")

OwnColumns(p) == (frame[p].rank * frame[p].bs)..(frame[p].rank * frame[p].bs + frame[p].bs - 1)

\* C3, as stated: after the suppression every entry of every anchor row in the
\* rank-owned columns [r*b, r*b+b) is <= -1e4, in both matrices.
C3_BlockSuppressedAsStated ==
    \A p \in Procs : Suppressed(p) =>
       \A i \in 0..(N(p) - 1) : \A j \in OwnColumns(p) :
          /\ frame[p].sim_t2i[i][j] <= -10000
          /\ frame[p].sim_i2t[i][j] <= -10000

\* C3, amended: after the suppression, in both matrices, the entry of anchor
\* row i at the column r*b+i of its own positive is <= -1e4 and every other
\* entry of the row, the other rank-owned columns included, keeps its
\* similarity, which is above -1e4.
C3_DiagonalSuppressed ==
    \A p \in Procs : Suppressed(p) =>
       LET F == frame[p]
           i2t == sim_i2t_of(F.image_feats, F.text_feats_all)
           t2i == sim_t2i_of(F.image_feats_all, F.text_feats)
       IN \A i \in 0..(N(p) - 1) : \A j \in 0..(world_size * N(p) - 1) :
            IF j = p * N(p) + i
            THEN F.sim_t2i[i][j] <= -10000 /\ F.sim_i2t[i][j] <= -10000
            ELSE /\ F.sim_t2i[i][j] = t2i[i][j] /\ F.sim_t2i[i][j] > -10000
                 /\ F.sim_i2t[i][j] = i2t[i][j] /\ F.sim_i2t[i][j] > -10000

\* the end-to-end scenario: rank 0 of 2, two anchors, past the suppression
C3_Witness ==
    /\ world_size = 2
    /\ Suppressed(0)
    /\ N(0) = 2
    /\ frame[0].sim_t2i[0][0] = Sentinel /\ frame[0].sim_t2i[1][1] = Sentinel
    /\ frame[0].sim_i2t[0][1] > Sentinel /\ frame[0].sim_i2t[1][0] > Sentinel

\* C4: the target vector has one entry per local sample and target[i] is
\* rank*b + i, in every call, whatever the local batch size.
C4_Targets ==
    \A p \in Procs : Has(p, "targets") =>
       /\ DOMAIN frame[p].targets = 0..(N(p) - 1)
       /\ \A i \in 0..(N(p) - 1) : frame[p].targets[i] = p * N(p) + i

\* rank 1 with two anchors: the targets are 2 and 3
C4_Witness ==
    /\ world_size = 2
    /\ Has(1, "targets")
    /\ N(1) = 2
    /\ frame[1].targets[0] = 2 /\ frame[1].targets[1] = 3

\* the gathered tensors a process holds, with the collective that made each
Gathered(p) ==
    {k \in DOMAIN GatherSites :
        /\ Has(p, GatherSites[k].dest)
        /\ GatherSites[k].dest = "image_embeds_all" => HoldsGatheredEmbeds(p)}

\* C5: in a process group, every gathered batch has world_size*b rows, row
\* r*b + i being row i of what rank r passed, and it is the same batch on
\* every process.
C5_RankOrder ==
    dist_initialized =>
       \A p \in Procs : \A k \in Gathered(p) :
          LET all == frame[p][GatherSites[k].dest] IN
          /\ DOMAIN all = 0..(world_size * N(p) - 1)
          /\ \A r \in Procs : \A i \in 0..(N(p) - 1) :
                all[r * N(p) + i].val = tensors_gather[k][r].tensor[i].val
          /\ \A q \in Procs : k \in Gathered(q) =>
                vals(frame[q][GatherSites[k].dest]) = vals(all)

\* both processes of a pool of two hold the gathered attention masks, and the
\* two ranks passed different masks
C5_Witness ==
    /\ world_size = 2
    /\ Has(0, "text_attention_mask_all") /\ Has(1, "text_attention_mask_all")
    /\ N(0) = 2
    /\ vals(tensors_gather[5][0].tensor) # vals(tensors_gather[5][1].tensor)

\* C6: in a process group, every row r*b + i of the gathered image embeddings
\* is linked by autograd to rank r, which produced it, and so is every
\* negative image taken from them.
C6_GradientToProducer ==
    dist_initialized =>
       \A p \in Procs :
          /\ HoldsGatheredEmbeds(p) =>
                \A g \in DOMAIN frame[p].image_embeds_all :
                   frame[p].image_embeds_all[g].grad = {g \div N(p)}
          /\ \A i \in DOMAIN frame[p].image_embeds_neg :
                frame[p].image_embeds_neg[i].grad # {}

\* C7: without a process group forward raises nothing and runs as rank 0 of a
\* world of one: the gathers are the identity, the targets are 0..b-1 and the
\* suppressed columns are those of rank 0.
C7_SingleProcess ==
    ~dist_initialized =>
       \A p \in Procs :
          LET F == frame[p] IN
          /\ F.error = "none"
          /\ Has(p, "image_feats_all") => F.image_feats_all = F.image_feats
          /\ Has(p, "text_feats_all") => F.text_feats_all = F.text_feats
          /\ Has(p, "targets") => F.targets = [i \in 0..(N(p) - 1) |-> i]
          /\ Suppressed(p) => \A i \in 0..(N(p) - 1) : F.sim_t2i[i][i] = Sentinel

\* p has run the step to its last statement
StepDone(p) == Ended(p) /\ frame[p].error \notin {"get_rank", "ones_like"}

\* C8: a step that reaches the end of forward gives its caller the two
\* losses, whatever return_dict is, and does not end in an error.
C8_ReturnsLosses ==
    \A p \in Procs :
       StepDone(p) =>
          /\ pc[p] = "returned"
          /\ frame[p].retval = "loss_itc, loss_itm"

\* C9: the matching batch has 3n rows in each component and the labels are n
\* ones followed by 2n zeros.
C9_TripletSize ==
    \A p \in Procs :
       /\ Assembled(p) =>
            /\ Size(frame[p].image_embeds_all) = 3 * N(p)
            /\ Size(frame[p].text_ids_all) = 3 * N(p)
            /\ Size(frame[p].text_atts_all) = 3 * N(p)
            /\ frame[p].loss_itm = "scalar"
       /\ Has(p, "itm_labels") =>
            frame[p].itm_labels =
               [k \in 0..(3 * N(p) - 1) |-> IF k < N(p) THEN 1 ELSE 0]

\* a triplet batch of six rows
C9_Witness ==
    \E p \in Procs :
       /\ Assembled(p)
       /\ N(p) = 2
       /\ Size(frame[p].image_embeds_all) = 6
       /\ frame[p].itm_labels[1] = 1 /\ frame[p].itm_labels[2] = 0

FiveGathers == [k \in DOMAIN GatherSites |-> GatherSites[k].arg]

IsPrefix(a, b) == Len(a) <= Len(b) /\ a = SubSeq(b, 1, Len(a))

\* every collective holds tensors of one call site only
Aligned ==
    \A n \in DOMAIN tensors_gather : \A p \in Procs :
       tensors_gather[n][p].site \in {"none", FiveGathers[n]}

\* every process was given the attention masks of its token ids
ValidInputs == \A p \in Procs : frame[p].attention_mask = masks_of(vals(frame[p].input_ids))

\* C10: in a process group every process enters the same five collectives in
\* the same order, whatever its rank, batch and draws, no collective mixes
\* call sites, and once all processes have entered the step with their
\* pixels, token ids and attention masks every process gets through the five
\* collectives to the end of the step.
C10_CollectivesComplete ==
    /\ [](dist_initialized =>
            /\ Aligned
            /\ \A p \in Procs : IsPrefix(frame[p].collectives, FiveGathers))
    /\ (dist_initialized /\ ValidInputs /\ \A p \in Procs : pc[p] = "encode")
          ~> (\A p \in Procs : StepDone(p) /\ frame[p].collectives = FiveGathers)

\* two processes of a pool at the end of one step, each having entered the
\* five collectives
C10_Witness ==
    /\ world_size = 2
    /\ \A p \in Procs : StepDone(p) /\ frame[p].collectives = FiveGathers
    /\ N(0) = 2

====
